---- MODULE Spec2Model ----
(***************************************************************************)
(* State-machine model of the VPS deployer: the slash-command handlers of  *)
(* the cogs, the ProxmoxClient gateway they call, the registry tables of   *)
(* models/database.py and the remote hypervisor the gateway talks to.      *)
(*                                                                         *)
(* A handler is a coroutine.  It runs without interruption between two     *)
(* gateway awaits, so a handler is one action for its entry (the code up   *)
(* to the first gateway await) and one action per gateway await (the       *)
(* remote answer, and the code after it up to the next gateway await,      *)
(* registry reads and writes included).  task[t].pc names the gateway      *)
(* operation a request is suspended in.                                    *)
(***************************************************************************)
EXTENDS Integers, Sequences, FiniteSets, TLC

\* ------------------------------------------------------------------ bounds
MaxTasks == 1        \* requests handled at the same time under Spec
MaxVMs == 2          \* hypervisor identifiers 100 .. 100 + MaxVMs - 1
MaxBackups == 2      \* vzdump archives the hypervisor ever holds
MaxDeployments == 2  \* deployment rows in the registry when a cleanup is asked
MaxAllowedRoles == 2 \* entries of Settings.allowed_roles in a permission evaluation

\* -------------------------------------------------------------- constants
FirstVmid == 100                 \* get_next_vmid's default / first free id
max_vms_per_user == 5            \* Settings.max_vms_per_user
default_vm_memory == 2048        \* vm_create's default memory
default_vm_cores == 2            \* vm_create's default cores
default_vm_disk == 32            \* vm_create's default disk

Tasks == 1 .. MaxTasks
TaskSlots == 1 .. (MaxTasks + 1)  \* slots of the two-request specifications
VmIds == FirstVmid .. (FirstVmid + MaxVMs - 1)

\* Discord users: 1 is listed in admin_user_ids (ADMIN_USER_IDS as the operator
\* sets it), 2 and 3 are not.
Users == {1, 2, 3}
admin_user_ids == {1}
allowed_roles == {"VPS Manager"}
RoleSets == {{}, {"VPS Manager"}}     \* the roles a member holds at a request
Nodes == <<"pve1", "pve2">>            \* what GET nodes answers, in order
NodeNames == {Nodes[i] : i \in 1 .. Len(Nodes)}

\* Settings.available_templates: the built-in catalog (two of its six
\* entries, one per distinct set of minimums).  The built-in entries carry
\* the image file under the key "template"; EnvTemplates is the same catalog
\* as an operator supplies it through the environment, with the key
\* "template_file" the handlers read.
BuiltinKeys == {"name", "template", "min_memory", "min_cores", "min_disk",
                "default_user", "ssh_port"}
DefaultTemplates ==
    [id \in {"ubuntu-22.04", "alpine-3.18"} |->
        IF id = "ubuntu-22.04"
        THEN [keys |-> BuiltinKeys, min_memory |-> 1024, min_cores |-> 1, min_disk |-> 20]
        ELSE [keys |-> BuiltinKeys, min_memory |-> 512, min_cores |-> 1, min_disk |-> 10]]
EnvTemplates ==
    [id \in DOMAIN DefaultTemplates |->
        [DefaultTemplates[id] EXCEPT !.keys = (@ \ {"template"}) \cup {"template_file"}]]

\* The methods ProxmoxClient defines.  A handler that calls any other name
\* (delete_backup, restore_backup, get_logs) gets an AttributeError.
ProxmoxClientMethods ==
    {"connect", "disconnect", "get_nodes", "get_node_status", "get_node_resources",
     "get_vms", "get_vm_config", "get_vm_status", "create_vm", "clone_vm",
     "start_vm", "stop_vm", "shutdown_vm", "reboot_vm", "delete_vm", "migrate_vm",
     "update_vm_config", "resize_disk", "create_snapshot", "get_snapshots",
     "restore_snapshot", "delete_snapshot", "create_backup", "get_backups",
     "get_storage", "get_storage_content", "get_networks", "get_templates",
     "download_template", "get_vm_stats", "get_node_stats", "get_vnc_info",
     "get_spice_info", "get_next_vmid", "check_vmid_exists", "get_vm_by_name"}

\* ----------------------------------------------------------------- inputs
TemplateInputs == {"ubuntu-22.04", "no-such-template"}
MemoryInputs == {512, default_vm_memory}
CoresInputs == {0, default_vm_cores}
DiskInputs == {10, default_vm_disk}
NodeInputs == {"", "pve2"}             \* "" is the parameter left out
TargetInputs == {"pve2", "no-such-node"}
BackupNameInputs == {"", "nightly"}    \* "" is the parameter left out
TemplateName == "golden"          \* the one template_name requests give
SizeInputs == {16, 64}
RetentionInputs == {1, 2}
cleanup_days == 30                \* user_cleanup's timedelta(days=30)
AgeInputs == {10, 45}             \* days since a deployment's created_at
DeploymentStatuses == {"pending", "in_progress", "completed", "failed"}
DeploymentInputs ==
    [user_id : {1, 2}, status : DeploymentStatuses, age : AgeInputs]

VARIABLES
    session,              \* ProxmoxClient.session: "none", "open" or "closed"
    authenticated,        \* _auth_ticket/_auth_csrf hold a ticket the hypervisor accepts
    available_templates,  \* Settings.available_templates
    remote,               \* the hypervisor: vmid -> "absent", "stopped", "running"
    remote_backups,       \* the hypervisor's vzdump archives: [vmid, ctime]
    vms,                  \* registry table vms
    backups,              \* registry table backups
    schedules,            \* registry backup schedules: vmid -> retention, 0 for none
    deployments,          \* registry table deployments
    templates,            \* registry table templates
    task,                 \* the requests being handled
    permission            \* the last has_permission evaluation and its settings

vars == <<session, authenticated, available_templates, remote, remote_backups,
          vms, backups, schedules, deployments, templates, task, permission>>

\* ------------------------------------------------------------ value shapes
NoVM == [vm_id |-> 0, owner_id |-> 0, template |-> "", memory |-> 0, cores |-> 0,
         disk_size |-> 0, status |-> "", node |-> ""]
NoReq == [template |-> "", memory |-> 0, cores |-> 0, disk |-> 0]
IdleTask == [cmd |-> "", pc |-> "idle", user |-> 0, roles |-> {}, vmid |-> 0,
             vm |-> NoVM, req |-> NoReq, n |-> 0, node |-> "", name |-> "",
             todo |-> {}, calls |-> {}, reply |-> "", error |-> "",
             attempts |-> 0, upstream |-> "", detail |-> ""]

NewTask(cmd, user, roles) ==
    [IdleTask EXCEPT !.cmd = cmd, !.user = user, !.roles = roles]

\* ------------------------------------------------------------ bot.py policy
is_admin(user_id) == user_id \in admin_user_ids

has_permission(user, roles) ==
    is_admin(user) \/ \E role_name \in allowed_roles : role_name \in roles

\* has_permission under given settings: admin_ids is Settings.admin_user_ids,
\* role_names the list Settings.allowed_roles, walked in order.
RECURSIVE holds_allowed_role(_, _)
holds_allowed_role(role_names, roles) ==
    IF role_names = <<>> THEN FALSE
    ELSE IF Head(role_names) \in roles THEN TRUE
    ELSE holds_allowed_role(Tail(role_names), roles)

\* A has_permission that looks at the first allowed role only.
has_permission_first_role(admin_ids, role_names, user, roles) ==
    IF user \in admin_ids THEN TRUE
    ELSE role_names # <<>> /\ Head(role_names) \in roles

has_permission_under(admin_ids, role_names, user, roles) ==
    IF user \in admin_ids THEN TRUE
    ELSE holds_allowed_role(role_names, roles)

RoleNames == {"VPS Manager", "Operator"}
AdminSets == SUBSET {1, 2}
AllowedRoleLists == UNION {[1 .. n -> RoleNames] : n \in 0 .. MaxAllowedRoles}
MemberRoleSets == SUBSET (RoleNames \cup {"@everyone"})
NoPermission == [admin_user_ids |-> {}, allowed_roles |-> <<>>, user |-> 0,
                 roles |-> {}, result |-> ""]

\* One evaluation of has_permission(user) under one configuration.
evaluate_has_permission ==
    /\ \E admin_ids \in AdminSets, role_names \in AllowedRoleLists,
          user \in Users, roles \in MemberRoleSets :
          permission' = [admin_user_ids |-> admin_ids, allowed_roles |-> role_names,
                         user |-> user, roles |-> roles,
                         result |-> IF has_permission_under(admin_ids, role_names, user, roles)
                                    THEN "True" ELSE "False"]
    /\ UNCHANGED <<session, authenticated, available_templates, remote, remote_backups,
                   vms, backups, schedules, deployments, templates, task>>

\* ------------------------------------------------------------ the registry
\* A lookup that ignores the identifier and answers with some stored row.
get_vm_any_row(vmid) ==
    IF vms # {} THEN CHOOSE r \in vms : \A q \in vms : r.vm_id <= q.vm_id ELSE NoVM

get_vm_by_id(vmid) ==
    IF \E r \in vms : r.vm_id = vmid
    THEN CHOOSE r \in vms : r.vm_id = vmid
    ELSE NoVM

get_user_vms(user) == {r \in vms : r.owner_id = user}

\* An ownership test that lets an admin through.
OwnerCheckAdminOverride(vm, user) ==
    vm # NoVM /\ (vm.owner_id = user \/ is_admin(user))

\* The handlers' ownership test: `not vm or vm["owner_id"] != interaction.user.id`
\* rejects, everything else passes.
OwnerCheck(vm, user) == vm # NoVM /\ vm.owner_id = user

\* VM.status defaults to "stopped"; VM.vm_id is unique.
VMRow(owner, vmid, template, memory, cores, disk, node) ==
    [vm_id |-> vmid, owner_id |-> owner, template |-> template, memory |-> memory,
     cores |-> cores, disk_size |-> disk, status |-> "stopped", node |-> node]

CanInsertVM(vmid) == \A r \in vms : r.vm_id # vmid

\* --------------------------------------------------------------- the gateway
\* A request leaves the handler: reply sent.
Finish(tk, reply) == [tk EXCEPT !.pc = "done", !.reply = reply]

\* `except Exception as e` of every handler; error names what was raised.
Raise(tk, error) == [Finish(tk, "failed") EXCEPT !.error = error]

\* _make_request up to its await.  Without a session (`not self.session`) it
\* raises "Not connected to Proxmox".  A session that disconnect() closed is
\* still set, so the test passes and session.request() on the closed aiohttp
\* session raises "Session is closed".  Otherwise the one HTTP request of the
\* operation is sent and the coroutine is suspended in it.  attempts counts
\* the HTTP requests the operation has sent.
Call(tk, op) ==
    IF session = "open"
    THEN [tk EXCEPT !.pc = op, !.calls = @ \cup {op}, !.attempts = 1]
    ELSE IF session = "none"
    THEN Raise([tk EXCEPT !.calls = @ \cup {op}, !.attempts = 0], "not_connected")
    ELSE Raise([tk EXCEPT !.calls = @ \cup {op}, !.attempts = 0], "session_closed")

\* The hypervisor answers 200 only to a request that carries a valid ticket
\* over a session that is still open.
Answers == session = "open" /\ authenticated

\* cluster/nextid: the lowest free identifier.
HasNextId == \E v \in DOMAIN remote : remote[v] = "absent"
NextId ==
    CHOOSE v \in DOMAIN remote :
        remote[v] = "absent" /\ \A w \in DOMAIN remote : remote[w] = "absent" => v <= w

Suspended(t, cmd, op) == task[t].cmd = cmd /\ task[t].pc = op

\* What a step leaves alone.
ClientUnchanged == UNCHANGED <<session, authenticated, available_templates, permission>>
RemoteUnchanged == UNCHANGED <<remote, remote_backups>>
RegistryUnchanged == UNCHANGED <<vms, backups, schedules, deployments, templates>>
OnlyTask == ClientUnchanged /\ RemoteUnchanged /\ RegistryUnchanged

\* The bodies of a non-200 answer: one carries its text under
\* errors.message, the other under the name of the offending parameter.
ErrorBodies ==
    {[key |-> "message", text |-> "VM is locked"],
     [key |-> "vmid", text |-> "invalid format"]}

\* result.get("errors", {}).get("message", "Unknown error")
error_msg(body) == IF body.key = "message" THEN body.text ELSE "Unknown error"

\* A failed request: the await raises and the handler's except replies.
\* Either the transport failed (session.request raised), or the hypervisor
\* answered with a status other than 200: upstream is the text it sent,
\* detail the text of the exception raised.  Neither is sent again.
Fails(t) ==
    /\ \/ task' = [task EXCEPT ![t] = Raise(@, "transport")]
       \/ \E body \in ErrorBodies :
             task' = [task EXCEPT ![t] =
                [Raise(@, "rejected") EXCEPT !.upstream = body.text,
                                             !.detail = error_msg(body)]]
    /\ OnlyTask

\* ------------------------------------------------------------------- Init
Init ==
    /\ session = "none"
    /\ authenticated = FALSE
    /\ available_templates \in {DefaultTemplates, EnvTemplates}
    /\ remote = [v \in VmIds |-> "absent"]
    /\ remote_backups = {}
    /\ vms = {}
    /\ backups = {}
    /\ schedules = [v \in VmIds |-> 0]
    /\ deployments = {}
    /\ templates = {}
    /\ permission = NoPermission
    /\ task = [t \in TaskSlots |-> IdleTask]

\* ---------------------------------------------------------- ProxmoxClient
\* connect(): a new session, then _authenticate(); a rejected authentication
\* raises after the session was stored.
connect ==
    /\ session' = "open"
    /\ \/ authenticated' = TRUE
       \/ authenticated' = authenticated
    /\ UNCHANGED <<available_templates, task, permission>>
    /\ RemoteUnchanged /\ RegistryUnchanged

\* A disconnect() that forgets the session object once it is closed.
disconnect_forgets ==
    /\ session' = IF session = "open" THEN "closed" ELSE "none"
    /\ UNCHANGED <<authenticated, available_templates, task, permission>>
    /\ RemoteUnchanged /\ RegistryUnchanged

\* disconnect(): closes the session if there is one; self.session stays set.
disconnect ==
    /\ session' = IF session = "none" THEN "none" ELSE "closed"
    /\ UNCHANGED <<authenticated, available_templates, task, permission>>
    /\ RemoteUnchanged /\ RegistryUnchanged

\* ---------------------------------------------------------------- vm_create
\* The minimum checks without the one on cores.
BelowMinimumNoCores(info, req) ==
    IF req.memory < info.min_memory THEN "memory_below_minimum"
    ELSE IF req.disk < info.min_disk THEN "disk_below_minimum"
    ELSE ""

\* The three `if` of vm_create, in the handler's order.
BelowMinimum(info, req) ==
    IF req.memory < info.min_memory THEN "memory_below_minimum"
    ELSE IF req.cores < info.min_cores THEN "cores_below_minimum"
    ELSE IF req.disk < info.min_disk THEN "disk_below_minimum"
    ELSE ""

vm_create(t) ==
    /\ task[t].pc = "idle"
    /\ \E user \in Users, roles \in RoleSets, template \in TemplateInputs,
          memory \in MemoryInputs, cores \in CoresInputs, disk \in DiskInputs,
          node \in NodeInputs :
        LET req == [template |-> template, memory |-> memory, cores |-> cores, disk |-> disk]
            tk == [NewTask("vm_create", user, roles) EXCEPT !.req = req, !.node = node]
        IN task' = [task EXCEPT ![t] =
              IF ~has_permission(user, roles) THEN Finish(tk, "no_permission")
              ELSE IF template \notin DOMAIN available_templates
                   THEN Finish(tk, "invalid_template")
              ELSE IF BelowMinimum(available_templates[template], req) # ""
                   THEN Finish(tk, BelowMinimum(available_templates[template], req))
              ELSE IF node = "" THEN Call(tk, "get_nodes")
              ELSE Call(tk, "get_next_vmid")]
    /\ OnlyTask

vm_create_get_nodes(t) ==
    /\ Suspended(t, "vm_create", "get_nodes")
    /\ \/ /\ Answers
          /\ task' = [task EXCEPT ![t] =
                IF Len(Nodes) = 0 THEN Finish(@, "no_nodes")
                ELSE Call([@ EXCEPT !.node = Nodes[1]], "get_next_vmid")]
          /\ OnlyTask
       \/ Fails(t)

\* After the identifier is peeked the handler builds vm_config, which reads
\* template_info["template_file"]: a KeyError for an entry without that key.
vm_create_get_next_vmid(t) ==
    /\ Suspended(t, "vm_create", "get_next_vmid")
    /\ \/ /\ Answers
          /\ HasNextId
          /\ task' = [task EXCEPT ![t] =
                IF "template_file" \notin available_templates[@.req.template].keys
                THEN Raise([@ EXCEPT !.n = NextId], "KeyError")
                ELSE Call([@ EXCEPT !.n = NextId], "create_vm")]
          /\ OnlyTask
       \/ Fails(t)

\* The hypervisor creates the VM (it refuses an identifier in use), then the
\* handler inserts the row; the insert raises on a duplicate vm_id.
vm_create_create_vm(t) ==
    /\ Suspended(t, "vm_create", "create_vm")
    /\ \/ /\ Answers
          /\ remote[task[t].n] = "absent"
          /\ remote' = [remote EXCEPT ![task[t].n] = "stopped"]
          /\ LET tk == task[t]
                 row == VMRow(tk.user, tk.n, tk.req.template, tk.req.memory,
                              tk.req.cores, tk.req.disk, tk.node)
             IN \/ IF CanInsertVM(tk.n)
                   THEN /\ vms' = vms \cup {row}
                        /\ task' = [task EXCEPT ![t] = Finish(@, "created")]
                   ELSE /\ vms' = vms
                        /\ task' = [task EXCEPT ![t] = Raise(@, "IntegrityError")]
                \* the registry write itself raises (database locked, disk full)
                \/ /\ vms' = vms
                   /\ task' = [task EXCEPT ![t] = Raise(@, "OperationalError")]
          /\ ClientUnchanged
          /\ UNCHANGED <<remote_backups, backups, schedules, deployments, templates>>
       \/ Fails(t)

\* An entry that asks the hypervisor for the VM's status before the
\* ownership test.
EntryStatusFirst(t, cmd, checks_permission, op) ==
    /\ task[t].pc = "idle"
    /\ \E user \in Users, roles \in RoleSets, vmid \in DOMAIN remote :
        LET vm == get_vm_by_id(vmid)
            tk == [NewTask(cmd, user, roles) EXCEPT !.vmid = vmid]
        IN task' = [task EXCEPT ![t] =
              IF checks_permission /\ ~has_permission(user, roles)
              THEN Finish(tk, "no_permission")
              ELSE IF ~OwnerCheck(vm, user)
                   THEN Finish([tk EXCEPT !.calls = {"get_vm_status"}, !.attempts = 1],
                               "not_found_or_not_owner")
              ELSE Call([tk EXCEPT !.vm = vm], op)]
    /\ OnlyTask

\* ------------------------------------------- handlers that name their VM
\* The entry of a handler that takes vmid: the optional has_permission test,
\* the registry lookup and the ownership test, then the first gateway call.
Entry(t, cmd, checks_permission, op) ==
    /\ task[t].pc = "idle"
    /\ \E user \in Users, roles \in RoleSets, vmid \in DOMAIN remote :
        LET vm == get_vm_by_id(vmid)
            tk == [NewTask(cmd, user, roles) EXCEPT !.vmid = vmid]
        IN task' = [task EXCEPT ![t] =
              IF checks_permission /\ ~has_permission(user, roles)
              THEN Finish(tk, "no_permission")
              ELSE IF ~OwnerCheck(vm, user) THEN Finish(tk, "not_found_or_not_owner")
              ELSE Call([tk EXCEPT !.vm = vm], op)]
    /\ OnlyTask


SetStatus(vmid, status) == {IF r.vm_id = vmid THEN [r EXCEPT !.status = status] ELSE r : r \in vms}
SetNode(vmid, node) == {IF r.vm_id = vmid THEN [r EXCEPT !.node = node] ELSE r : r \in vms}
SetDiskSize(vmid, size) == {IF r.vm_id = vmid THEN [r EXCEPT !.disk_size = size] ELSE r : r \in vms}

\* ----------------------------------------------------------------- vm_start
vm_start(t) == Entry(t, "vm_start", FALSE, "start_vm")

vm_start_start_vm(t) ==
    /\ Suspended(t, "vm_start", "start_vm")
    /\ \/ /\ Answers
          /\ remote[task[t].vmid] # "absent"
          /\ remote' = [remote EXCEPT ![task[t].vmid] = "running"]
          /\ vms' = SetStatus(task[t].vmid, "running")
          /\ task' = [task EXCEPT ![t] = Finish(@, "started")]
          /\ ClientUnchanged
          /\ UNCHANGED <<remote_backups, backups, schedules, deployments, templates>>
       \/ Fails(t)

\* ------------------------------------------------------------------ vm_stop
vm_stop(t) == Entry(t, "vm_stop", FALSE, "stop_vm")

\* A vm_stop that records the stop before the hypervisor has answered.
vm_stop_status_first(t) ==
    /\ Suspended(t, "vm_stop", "stop_vm")
    /\ vms' = SetStatus(task[t].vmid, "stopped")
    /\ \/ /\ Answers
          /\ remote[task[t].vmid] # "absent"
          /\ remote' = [remote EXCEPT ![task[t].vmid] = "stopped"]
          /\ task' = [task EXCEPT ![t] = Finish(@, "stopped")]
       \/ /\ task' = [task EXCEPT ![t] = Raise(@, "transport")]
          /\ UNCHANGED remote
    /\ ClientUnchanged
    /\ UNCHANGED <<remote_backups, backups, schedules, deployments, templates>>

vm_stop_stop_vm(t) ==
    /\ Suspended(t, "vm_stop", "stop_vm")
    /\ \/ /\ Answers
          /\ remote[task[t].vmid] # "absent"
          /\ remote' = [remote EXCEPT ![task[t].vmid] = "stopped"]
          /\ vms' = SetStatus(task[t].vmid, "stopped")
          /\ task' = [task EXCEPT ![t] = Finish(@, "stopped")]
          /\ ClientUnchanged
          /\ UNCHANGED <<remote_backups, backups, schedules, deployments, templates>>
       \/ Fails(t)

\* ---------------------------------------------------------------- vm_reboot
vm_reboot(t) == Entry(t, "vm_reboot", FALSE, "reboot_vm")

vm_reboot_reboot_vm(t) ==
    /\ Suspended(t, "vm_reboot", "reboot_vm")
    /\ \/ /\ Answers
          /\ remote[task[t].vmid] = "running"
          /\ task' = [task EXCEPT ![t] = Finish(@, "rebooted")]
          /\ OnlyTask
       \/ Fails(t)

\* A vm_delete that drops the row whatever the hypervisor answers.
vm_delete_row_first(t) ==
    /\ Suspended(t, "vm_delete", "delete_vm")
    /\ vms' = {r \in vms : r.vm_id # task[t].vmid}
    /\ \/ /\ Answers
          /\ remote[task[t].vmid] # "absent"
          /\ remote' = [remote EXCEPT ![task[t].vmid] = "absent"]
          /\ task' = [task EXCEPT ![t] = Finish(@, "deleted")]
       \/ /\ remote' = remote
          /\ task' = [task EXCEPT ![t] = Raise(@, "transport")]
    /\ ClientUnchanged
    /\ UNCHANGED <<remote_backups, backups, schedules, deployments, templates>>

\* ---------------------------------------------------------------- vm_delete
vm_delete(t) == Entry(t, "vm_delete", FALSE, "delete_vm")

vm_delete_delete_vm(t) ==
    /\ Suspended(t, "vm_delete", "delete_vm")
    /\ \/ /\ Answers
          /\ remote[task[t].vmid] # "absent"
          /\ remote' = [remote EXCEPT ![task[t].vmid] = "absent"]
          /\ vms' = {r \in vms : r.vm_id # task[t].vmid}
          /\ task' = [task EXCEPT ![t] = Finish(@, "deleted")]
          /\ ClientUnchanged
          /\ UNCHANGED <<remote_backups, backups, schedules, deployments, templates>>
       \/ Fails(t)

\* ------------------------------------------------------------------ vm_info
vm_info(t) == Entry(t, "vm_info", FALSE, "get_vm_status")

vm_info_get_vm_status(t) ==
    /\ Suspended(t, "vm_info", "get_vm_status")
    /\ \/ /\ Answers
          /\ remote[task[t].vmid] # "absent"
          /\ task' = [task EXCEPT ![t] = Call(@, "get_vm_config")]
          /\ OnlyTask
       \/ Fails(t)

vm_info_get_vm_config(t) ==
    /\ Suspended(t, "vm_info", "get_vm_config")
    /\ \/ /\ Answers
          /\ remote[task[t].vmid] # "absent"
          /\ task' = [task EXCEPT ![t] = Finish(@, "info")]
          /\ OnlyTask
       \/ Fails(t)

\* ----------------------------------------------------------------- vm_clone
vm_clone(t) ==
    /\ task[t].pc = "idle"
    /\ \E user \in Users, roles \in RoleSets, vmid \in DOMAIN remote,
          new_vmid \in {0} \cup DOMAIN remote :
        LET vm == get_vm_by_id(vmid)
            tk == [NewTask("vm_clone", user, roles) EXCEPT !.vmid = vmid, !.n = new_vmid]
        IN task' = [task EXCEPT ![t] =
              IF ~OwnerCheck(vm, user) THEN Finish(tk, "not_found_or_not_owner")
              ELSE IF new_vmid = 0 THEN Call([tk EXCEPT !.vm = vm], "get_next_vmid")
              ELSE Call([tk EXCEPT !.vm = vm], "clone_vm")]
    /\ OnlyTask

vm_clone_get_next_vmid(t) ==
    /\ Suspended(t, "vm_clone", "get_next_vmid")
    /\ \/ /\ Answers
          /\ HasNextId
          /\ task' = [task EXCEPT ![t] = Call([@ EXCEPT !.n = NextId], "clone_vm")]
          /\ OnlyTask
       \/ Fails(t)

\* The clone's row copies the source row the handler fetched at its entry.
vm_clone_clone_vm(t) ==
    /\ Suspended(t, "vm_clone", "clone_vm")
    /\ \/ /\ Answers
          /\ remote[task[t].vmid] # "absent"
          /\ remote[task[t].n] = "absent"
          /\ remote' = [remote EXCEPT ![task[t].n] = "stopped"]
          /\ LET tk == task[t]
                 row == VMRow(tk.user, tk.n, tk.vm.template, tk.vm.memory, tk.vm.cores,
                              tk.vm.disk_size, tk.vm.node)
             IN \/ IF CanInsertVM(tk.n)
                   THEN /\ vms' = vms \cup {row}
                        /\ task' = [task EXCEPT ![t] = Finish(@, "cloned")]
                   ELSE /\ vms' = vms
                        /\ task' = [task EXCEPT ![t] = Raise(@, "IntegrityError")]
                \* the registry write itself raises (database locked, disk full)
                \/ /\ vms' = vms
                   /\ task' = [task EXCEPT ![t] = Raise(@, "OperationalError")]
          /\ ClientUnchanged
          /\ UNCHANGED <<remote_backups, backups, schedules, deployments, templates>>
       \/ Fails(t)

\* A vm_resize without the test that the new size is larger.
vm_resize_any_size(t) ==
    /\ task[t].pc = "idle"
    /\ \E user \in Users, roles \in RoleSets, vmid \in DOMAIN remote, new_size \in SizeInputs :
        LET vm == get_vm_by_id(vmid)
            tk == [NewTask("vm_resize", user, roles) EXCEPT !.vmid = vmid, !.n = new_size]
        IN task' = [task EXCEPT ![t] =
              IF ~OwnerCheck(vm, user) THEN Finish(tk, "not_found_or_not_owner")
              ELSE Call([tk EXCEPT !.vm = vm], "resize_disk")]
    /\ OnlyTask

\* ---------------------------------------------------------------- vm_resize
vm_resize(t) ==
    /\ task[t].pc = "idle"
    /\ \E user \in Users, roles \in RoleSets, vmid \in DOMAIN remote, new_size \in SizeInputs :
        LET vm == get_vm_by_id(vmid)
            tk == [NewTask("vm_resize", user, roles) EXCEPT !.vmid = vmid, !.n = new_size]
        IN task' = [task EXCEPT ![t] =
              IF ~OwnerCheck(vm, user) THEN Finish(tk, "not_found_or_not_owner")
              ELSE IF new_size <= vm.disk_size THEN Finish(tk, "size_not_larger")
              ELSE Call([tk EXCEPT !.vm = vm], "resize_disk")]
    /\ OnlyTask

vm_resize_resize_disk(t) ==
    /\ Suspended(t, "vm_resize", "resize_disk")
    /\ \/ /\ Answers
          /\ remote[task[t].vmid] # "absent"
          /\ vms' = SetDiskSize(task[t].vmid, task[t].n)
          /\ task' = [task EXCEPT ![t] = Finish(@, "resized")]
          /\ ClientUnchanged /\ RemoteUnchanged
          /\ UNCHANGED <<backups, schedules, deployments, templates>>
       \/ Fails(t)

\* ------------------------------------------------------------- node_migrate
node_migrate(t) ==
    /\ task[t].pc = "idle"
    /\ \E user \in Users, roles \in RoleSets, vmid \in DOMAIN remote, target_node \in TargetInputs :
        LET vm == get_vm_by_id(vmid)
            tk == [NewTask("node_migrate", user, roles) EXCEPT !.vmid = vmid, !.node = target_node]
        IN task' = [task EXCEPT ![t] =
              IF ~has_permission(user, roles) THEN Finish(tk, "no_permission")
              ELSE IF ~OwnerCheck(vm, user) THEN Finish(tk, "not_found_or_not_owner")
              ELSE Call([tk EXCEPT !.vm = vm], "get_nodes")]
    /\ OnlyTask

node_migrate_get_nodes(t) ==
    /\ Suspended(t, "node_migrate", "get_nodes")
    /\ \/ /\ Answers
          /\ task' = [task EXCEPT ![t] =
                IF @.node \notin NodeNames THEN Finish(@, "target_not_found")
                ELSE Call(@, "migrate_vm")]
          /\ OnlyTask
       \/ Fails(t)

\* A migration that also registers the row under the first admin.
node_migrate_takes_over(t) ==
    /\ Suspended(t, "node_migrate", "migrate_vm")
    /\ \/ /\ Answers
          /\ remote[task[t].vmid] # "absent"
          /\ vms' = {IF r.vm_id = task[t].vmid
                     THEN [r EXCEPT !.node = task[t].node,
                                    !.owner_id = CHOOSE a \in admin_user_ids : TRUE]
                     ELSE r : r \in vms}
          /\ task' = [task EXCEPT ![t] = Finish(@, "migrating")]
          /\ ClientUnchanged /\ RemoteUnchanged
          /\ UNCHANGED <<backups, schedules, deployments, templates>>
       \/ Fails(t)

node_migrate_migrate_vm(t) ==
    /\ Suspended(t, "node_migrate", "migrate_vm")
    /\ \/ /\ Answers
          /\ remote[task[t].vmid] # "absent"
          /\ vms' = SetNode(task[t].vmid, task[t].node)
          /\ task' = [task EXCEPT ![t] = Finish(@, "migrating")]
          /\ ClientUnchanged /\ RemoteUnchanged
          /\ UNCHANGED <<backups, schedules, deployments, templates>>
       \/ Fails(t)

\* ---------------------------------------------------------- template_create
template_create(t) == Entry(t, "template_create", TRUE, "get_vm_status")

template_create_get_vm_status(t) ==
    /\ Suspended(t, "template_create", "get_vm_status")
    /\ \/ /\ Answers
          /\ remote[task[t].vmid] # "absent"
          /\ task' = [task EXCEPT ![t] =
                IF remote[@.vmid] = "running" THEN Call(@, "stop_vm")
                ELSE Call(@, "update_vm_config")]
          /\ OnlyTask
       \/ Fails(t)

\* stop_vm, then the five seconds of asyncio.sleep, then the next call.  The
\* registry row keeps its status.
template_create_stop_vm(t) ==
    /\ Suspended(t, "template_create", "stop_vm")
    /\ \/ /\ Answers
          /\ remote[task[t].vmid] # "absent"
          /\ remote' = [remote EXCEPT ![task[t].vmid] = "stopped"]
          /\ task' = [task EXCEPT ![t] = Call(@, "update_vm_config")]
          /\ ClientUnchanged /\ RegistryUnchanged
          /\ UNCHANGED remote_backups
       \/ Fails(t)

\* Template.name is unique: a second template of the same name fails to insert.
template_create_update_vm_config(t) ==
    /\ Suspended(t, "template_create", "update_vm_config")
    /\ \/ /\ Answers
          /\ remote[task[t].vmid] # "absent"
          /\ LET tk == task[t]
                 row == [name |-> TemplateName,
                         metadata |-> [created_from_vm |-> tk.vmid,
                                       created_by |-> tk.user]]
             IN IF \A r \in templates : r.name # row.name
                THEN /\ templates' = templates \cup {row}
                     /\ task' = [task EXCEPT ![t] = Finish(@, "template_created")]
                ELSE /\ templates' = templates
                     /\ task' = [task EXCEPT ![t] = Raise(@, "IntegrityError")]
          /\ ClientUnchanged /\ RemoteUnchanged
          /\ UNCHANGED <<vms, backups, schedules, deployments>>
       \/ Fails(t)

\* ------------------------------------------------------------- backup_create
backup_create(t) ==
    /\ task[t].pc = "idle"
    /\ \E user \in Users, roles \in RoleSets, vmid \in DOMAIN remote,
          backup_name \in BackupNameInputs :
        LET vm == get_vm_by_id(vmid)
            tk == [NewTask("backup_create", user, roles) EXCEPT !.vmid = vmid, !.name = backup_name]
        IN task' = [task EXCEPT ![t] =
              IF ~has_permission(user, roles) THEN Finish(tk, "no_permission")
              ELSE IF ~OwnerCheck(vm, user) THEN Finish(tk, "not_found_or_not_owner")
              ELSE Call([tk EXCEPT !.vm = vm], "create_backup")]
    /\ OnlyTask

\* vzdump writes an archive stamped with the time of the call; the handler
\* then inserts a backups row under the given or the generated name.
\* Backup.backup_id is unique.
backup_create_create_backup(t) ==
    /\ Suspended(t, "backup_create", "create_backup")
    /\ \/ /\ Answers
          /\ remote[task[t].vmid] # "absent"
          /\ Cardinality(remote_backups) < MaxBackups
          /\ LET tk == task[t]
                 ctime == Cardinality(remote_backups) + 1
                 backup_id == IF tk.name = "" THEN "backup-" \o ToString(ctime) ELSE tk.name
                 row == [backup_id |-> backup_id, vm_id |-> tk.vmid, status |-> "in_progress"]
             IN /\ remote_backups' = remote_backups \cup {[vmid |-> tk.vmid, ctime |-> ctime]}
                /\ IF \A b \in backups : b.backup_id # backup_id
                   THEN /\ backups' = backups \cup {row}
                        /\ task' = [task EXCEPT ![t] = Finish(@, "backup_created")]
                   ELSE /\ backups' = backups
                        /\ task' = [task EXCEPT ![t] = Raise(@, "IntegrityError")]
          /\ ClientUnchanged
          /\ UNCHANGED <<remote, vms, schedules, deployments, templates>>
       \/ Fails(t)

\* What GET nodes/{node}/qemu/{vmid}/vzdump answers.
get_backups(vmid) == {b \in remote_backups : b.vmid = vmid}

\* --------------------------------------------------------------- backup_list
backup_list(t) == Entry(t, "backup_list", TRUE, "get_backups")

backup_list_get_backups(t) ==
    /\ Suspended(t, "backup_list", "get_backups")
    /\ \/ /\ Answers
          /\ task' = [task EXCEPT ![t] =
                IF get_backups(@.vmid) = {} THEN Finish(@, "no_backups")
                ELSE Finish(@, "backups_listed")]
          /\ OnlyTask
       \/ Fails(t)

\* ------------------------------------------- backup_restore / backup_delete
\* Both look the archive up by volid, then call a method ProxmoxClient does
\* not define: the AttributeError is raised before anything is sent.
CallMethod(tk, op) ==
    IF op \in ProxmoxClientMethods THEN Call(tk, op)
    ELSE Raise([tk EXCEPT !.calls = @ \cup {op}], "AttributeError")

backup_restore(t) ==
    /\ task[t].pc = "idle"
    /\ \E user \in Users, roles \in RoleSets, vmid \in DOMAIN remote,
          cmd \in {"backup_restore", "backup_delete"}, volid \in 1 .. MaxBackups :
        LET vm == get_vm_by_id(vmid)
            tk == [NewTask(cmd, user, roles) EXCEPT !.vmid = vmid, !.n = volid]
        IN task' = [task EXCEPT ![t] =
              IF ~has_permission(user, roles) THEN Finish(tk, "no_permission")
              ELSE IF ~OwnerCheck(vm, user) THEN Finish(tk, "not_found_or_not_owner")
              ELSE Call([tk EXCEPT !.vm = vm], "get_backups")]
    /\ OnlyTask

backup_restore_get_backups(t) ==
    /\ task[t].cmd \in {"backup_restore", "backup_delete"}
    /\ task[t].pc = "get_backups"
    /\ \/ /\ Answers
          /\ task' = [task EXCEPT ![t] =
                IF \A b \in get_backups(@.vmid) : b.ctime # @.n
                THEN Finish(@, "backup_not_found")
                ELSE IF @.cmd = "backup_restore" THEN CallMethod(@, "restore_backup")
                ELSE CallMethod(@, "delete_backup")]
          /\ OnlyTask
       \/ Fails(t)

\* -------------------------------------- backup_schedule / backup_unschedule
backup_schedule(t) ==
    /\ task[t].pc = "idle"
    /\ \E user \in Users, roles \in RoleSets, vmid \in DOMAIN remote,
          retention \in RetentionInputs :
        LET vm == get_vm_by_id(vmid)
            tk == [NewTask("backup_schedule", user, roles) EXCEPT !.vmid = vmid, !.n = retention]
            ok == has_permission(user, roles) /\ OwnerCheck(vm, user)
        IN /\ task' = [task EXCEPT ![t] =
                 IF ~has_permission(user, roles) THEN Finish(tk, "no_permission")
                 ELSE IF ~OwnerCheck(vm, user) THEN Finish(tk, "not_found_or_not_owner")
                 ELSE Finish([tk EXCEPT !.vm = vm], "schedule_created")]
           /\ schedules' = IF ok THEN [schedules EXCEPT ![vmid] = retention] ELSE schedules
    /\ ClientUnchanged /\ RemoteUnchanged
    /\ UNCHANGED <<vms, backups, deployments, templates>>

backup_unschedule(t) ==
    /\ task[t].pc = "idle"
    /\ \E user \in Users, roles \in RoleSets, vmid \in DOMAIN remote :
        LET vm == get_vm_by_id(vmid)
            tk == [NewTask("backup_unschedule", user, roles) EXCEPT !.vmid = vmid]
            ok == has_permission(user, roles) /\ OwnerCheck(vm, user)
        IN /\ task' = [task EXCEPT ![t] =
                 IF ~has_permission(user, roles) THEN Finish(tk, "no_permission")
                 ELSE IF ~OwnerCheck(vm, user) THEN Finish(tk, "not_found_or_not_owner")
                 ELSE Finish([tk EXCEPT !.vm = vm], "schedule_removed")]
           /\ schedules' = IF ok THEN [schedules EXCEPT ![vmid] = 0] ELSE schedules
    /\ ClientUnchanged /\ RemoteUnchanged
    /\ UNCHANGED <<vms, backups, deployments, templates>>

\* ------------------------------------------------------------ backup_cleanup
\* backups.sort(key=ctime, reverse=True); backups[retention:] is what the loop
\* walks: the archives that have at least `retention` newer ones.
BeyondRetention(bs, retention) ==
    {b \in bs : Cardinality({c \in bs : c.ctime > b.ctime}) >= retention}

\* The loop body awaits proxmox.delete_backup inside its own try: for a
\* method the client does not define every iteration raises AttributeError,
\* is logged, and deletes nothing.
CleanupDeletes(bs, retention) ==
    IF "delete_backup" \in ProxmoxClientMethods THEN BeyondRetention(bs, retention) ELSE {}

backup_cleanup(t) ==
    /\ task[t].pc = "idle"
    /\ \E user \in Users, roles \in RoleSets, vmid \in DOMAIN remote :
        LET vm == get_vm_by_id(vmid)
            tk == [NewTask("backup_cleanup", user, roles) EXCEPT !.vmid = vmid]
        IN task' = [task EXCEPT ![t] =
              IF ~has_permission(user, roles) THEN Finish(tk, "no_permission")
              ELSE IF ~OwnerCheck(vm, user) THEN Finish(tk, "not_found_or_not_owner")
              ELSE IF schedules[vmid] = 0 THEN Finish(tk, "no_schedule")
              ELSE Call([tk EXCEPT !.vm = vm, !.n = schedules[vmid]], "get_backups")]
    /\ OnlyTask

\* task[t].todo records the archives found, task[t].n the retention applied.
backup_cleanup_get_backups(t) ==
    /\ Suspended(t, "backup_cleanup", "get_backups")
    /\ \/ /\ Answers
          /\ LET tk == task[t]
                 found == get_backups(tk.vmid)
                 deleted == CleanupDeletes(found, tk.n)
             IN /\ task' = [task EXCEPT ![t] =
                      IF Cardinality(found) <= tk.n
                      THEN Finish([@ EXCEPT !.todo = found], "nothing_to_clean")
                      ELSE Finish([@ EXCEPT !.todo = found,
                                            !.calls = @ \cup {"delete_backup"}],
                                  "cleanup_completed")]
                /\ remote_backups' =
                      IF Cardinality(found) <= tk.n THEN remote_backups
                      ELSE remote_backups \ deleted
          /\ ClientUnchanged /\ RegistryUnchanged
          /\ UNCHANGED remote
       \/ Fails(t)

\* ---------------------------------------------------------------- monitor_vm
monitor_vm(t) == Entry(t, "monitor_vm", TRUE, "get_vm_status")

\* A monitor that stops the VM it has found running.
monitor_vm_stops_vm(t) ==
    /\ Suspended(t, "monitor_vm", "get_vm_status")
    /\ \/ /\ Answers
          /\ remote[task[t].vmid] # "absent"
          /\ IF remote[task[t].vmid] = "running"
             THEN /\ remote' = [remote EXCEPT ![task[t].vmid] = "stopped"]
                  /\ vms' = SetStatus(task[t].vmid, "stopped")
                  /\ task' = [task EXCEPT ![t] =
                        Call([@ EXCEPT !.calls = @ \cup {"stop_vm"}], "get_vm_stats")]
             ELSE /\ UNCHANGED <<remote, vms>>
                  /\ task' = [task EXCEPT ![t] = Call(@, "get_vm_stats")]
          /\ ClientUnchanged
          /\ UNCHANGED <<remote_backups, backups, schedules, deployments, templates>>
       \/ Fails(t)

monitor_vm_get_vm_status(t) ==
    /\ Suspended(t, "monitor_vm", "get_vm_status")
    /\ \/ /\ Answers
          /\ remote[task[t].vmid] # "absent"
          /\ task' = [task EXCEPT ![t] = Call(@, "get_vm_stats")]
          /\ OnlyTask
       \/ Fails(t)

monitor_vm_get_vm_stats(t) ==
    /\ Suspended(t, "monitor_vm", "get_vm_stats")
    /\ \/ /\ Answers
          /\ remote[task[t].vmid] # "absent"
          /\ task' = [task EXCEPT ![t] = Finish(@, "vm_monitored")]
          /\ OnlyTask
       \/ Fails(t)

\* ------------------------------------------- monitor_alerts / monitor_health
\* Both walk the nodes and, per node, every running VM the hypervisor lists,
\* reading its statistics.  The walk over the nodes is modelled as one pass
\* over the cluster.  A failure inside the pass is caught by the loop's own
\* try and ends the pass; a failure of one VM's read skips that VM.
MonitoringFlows == {"monitor_alerts", "monitor_health"}

Lowest(S) == CHOOSE v \in S : \A w \in S : v <= w

\* The loop over the running VMs: the next read, or the report.
NextVmStats(tk) ==
    IF tk.todo = {} \/ session # "open"
    THEN Finish([tk EXCEPT !.todo = {}, !.vmid = 0,
                           !.calls = IF tk.todo = {} THEN @ ELSE @ \cup {"get_vm_stats"}],
                "report")
    ELSE [tk EXCEPT !.pc = "get_vm_stats", !.vmid = Lowest(tk.todo), !.attempts = 1,
                    !.todo = @ \ {Lowest(tk.todo)}, !.calls = @ \cup {"get_vm_stats"}]

\* A call inside the per-node try: a synchronous failure ends the pass.
CallInPass(tk, op) ==
    IF session = "open" THEN Call(tk, op)
    ELSE Finish([tk EXCEPT !.calls = @ \cup {op}], "report")

monitor_alerts(t) ==
    /\ task[t].pc = "idle"
    /\ \E user \in Users, roles \in RoleSets, cmd \in MonitoringFlows :
        LET tk == NewTask(cmd, user, roles)
        IN task' = [task EXCEPT ![t] =
              IF ~has_permission(user, roles) THEN Finish(tk, "no_permission")
              ELSE Call(tk, "get_nodes")]
    /\ OnlyTask

monitor_alerts_get_nodes(t) ==
    /\ task[t].cmd \in MonitoringFlows /\ task[t].pc = "get_nodes"
    /\ \/ /\ Answers
          /\ task' = [task EXCEPT ![t] = CallInPass(@, "get_node_status")]
          /\ OnlyTask
       \/ Fails(t)

monitor_alerts_get_node_status(t) ==
    /\ task[t].cmd \in MonitoringFlows /\ task[t].pc = "get_node_status"
    /\ \/ /\ Answers
          /\ task' = [task EXCEPT ![t] = CallInPass(@, "get_node_resources")]
          /\ OnlyTask
       \/ /\ task' = [task EXCEPT ![t] = Finish(@, "report")]
          /\ OnlyTask

monitor_alerts_get_node_resources(t) ==
    /\ task[t].cmd \in MonitoringFlows /\ task[t].pc = "get_node_resources"
    /\ \/ /\ Answers
          /\ task' = [task EXCEPT ![t] = CallInPass(@, "get_vms")]
          /\ OnlyTask
       \/ /\ task' = [task EXCEPT ![t] = Finish(@, "report")]
          /\ OnlyTask

monitor_alerts_get_vms(t) ==
    /\ task[t].cmd \in MonitoringFlows /\ task[t].pc = "get_vms"
    /\ \/ /\ Answers
          /\ task' = [task EXCEPT ![t] =
                NextVmStats([@ EXCEPT !.todo = {v \in DOMAIN remote : remote[v] = "running"}])]
          /\ OnlyTask
       \/ /\ task' = [task EXCEPT ![t] = Finish(@, "report")]
          /\ OnlyTask

monitor_alerts_get_vm_stats(t) ==
    /\ task[t].cmd \in MonitoringFlows /\ task[t].pc = "get_vm_stats"
    /\ \/ /\ Answers
          /\ remote[task[t].vmid] # "absent"
          /\ task' = [task EXCEPT ![t] = NextVmStats(@)]
          /\ OnlyTask
       \/ /\ task' = [task EXCEPT ![t] = NextVmStats(@)]
          /\ OnlyTask

\* ------------------------------------------------------------------ user_vms
\* Lists the caller's rows and reads the status of each one the registry
\* believes running; a failed read is logged and skipped.
NextUptime(tk) ==
    IF tk.todo = {} \/ session # "open"
    THEN Finish([tk EXCEPT !.todo = {}, !.vmid = 0, !.vm = NoVM,
                           !.calls = IF tk.todo = {} THEN @ ELSE @ \cup {"get_vm_status"}],
                "vms_listed")
    ELSE LET row == CHOOSE r \in tk.todo : \A q \in tk.todo : r.vm_id <= q.vm_id
         IN [tk EXCEPT !.pc = "get_vm_status", !.vmid = row.vm_id, !.vm = row,
                       !.attempts = 1, !.todo = @ \ {row}, !.calls = @ \cup {"get_vm_status"}]

user_vms(t) ==
    /\ task[t].pc = "idle"
    /\ \E user \in Users, roles \in RoleSets :
        LET tk == NewTask("user_vms", user, roles)
        IN task' = [task EXCEPT ![t] =
              IF get_user_vms(user) = {} THEN Finish(tk, "no_vms")
              ELSE NextUptime([tk EXCEPT !.todo = {r \in get_user_vms(user) : r.status = "running"}])]
    /\ OnlyTask

user_vms_get_vm_status(t) ==
    /\ Suspended(t, "user_vms", "get_vm_status")
    /\ \/ /\ Answers
          /\ remote[task[t].vmid] # "absent"
          /\ task' = [task EXCEPT ![t] = NextUptime(@)]
          /\ OnlyTask
       \/ /\ task' = [task EXCEPT ![t] = NextUptime(@)]
          /\ OnlyTask

\* ---------------------------------------------------------- template_delete
\* The row of the templates table under a name, as a dictionary of its
\* columns; the empty record when there is none.
get_template_by_name(name) ==
    IF \E r \in templates : r.name = name
    THEN CHOOSE r \in templates : r.name = name
    ELSE [name |-> ""]

\* dict.get: the value under the key, None (here 0, no user's id) without it.
dict_get(d, key) == IF key \in DOMAIN d THEN d[key] ELSE 0

template_delete(t) ==
    /\ task[t].pc = "idle"
    /\ \E user \in Users, roles \in RoleSets :
        LET template == get_template_by_name(TemplateName)
            tk == [NewTask("template_delete", user, roles) EXCEPT !.name = TemplateName]
        IN IF ~has_permission(user, roles)
           THEN /\ task' = [task EXCEPT ![t] = Finish(tk, "no_permission")]
                /\ templates' = templates
           ELSE IF template.name = ""
           THEN /\ task' = [task EXCEPT ![t] = Finish(tk, "template_not_found")]
                /\ templates' = templates
           ELSE IF dict_get(template, "created_by") # user
           THEN /\ task' = [task EXCEPT ![t] = Finish(tk, "not_creator")]
                /\ templates' = templates
           ELSE /\ task' = [task EXCEPT ![t] = Finish(tk, "template_deleted")]
                /\ templates' = templates \ {template}
    /\ ClientUnchanged /\ RemoteUnchanged
    /\ UNCHANGED <<vms, backups, schedules, deployments>>

\* ------------------------------------------------------------- user_cleanup
\* The rows cleanup_old_deployments(user_id, cutoff_date) deletes: the
\* user's own deployments that have ended and were created before the cutoff.
cleanup_old_deployments(user_id, days) ==
    {d \in deployments : /\ d.user_id = user_id
                         /\ d.status \in {"completed", "failed"}
                         /\ d.age > days}

\* A user_cleanup that purges for every user.
user_cleanup_everyone(t) ==
    /\ task[t].pc = "idle"
    /\ \E user \in Users, roles \in RoleSets :
        LET tk == NewTask("user_cleanup", user, roles)
            old == UNION {cleanup_old_deployments(u, cleanup_days) : u \in Users}
        IN IF ~has_permission(user, roles)
           THEN /\ task' = [task EXCEPT ![t] = Finish(tk, "no_permission")]
                /\ deployments' = deployments
           ELSE /\ task' = [task EXCEPT ![t] =
                      Finish([tk EXCEPT !.todo = old], "user_cleanup_completed")]
                /\ deployments' = deployments \ old
    /\ ClientUnchanged /\ RemoteUnchanged
    /\ UNCHANGED <<vms, backups, schedules, templates>>

user_cleanup(t) ==
    /\ task[t].pc = "idle"
    /\ \E user \in Users, roles \in RoleSets :
        LET tk == NewTask("user_cleanup", user, roles)
            old == cleanup_old_deployments(user, cleanup_days)
        IN IF ~has_permission(user, roles)
           THEN /\ task' = [task EXCEPT ![t] = Finish(tk, "no_permission")]
                /\ deployments' = deployments
           ELSE /\ task' = [task EXCEPT ![t] =
                      Finish([tk EXCEPT !.todo = old], "user_cleanup_completed")]
                /\ deployments' = deployments \ old
    /\ ClientUnchanged /\ RemoteUnchanged
    /\ UNCHANGED <<vms, backups, schedules, templates>>

\* -------------------------------------------------------- check_vmid_exists
\* ProxmoxClient.check_vmid_exists, invoked by a caller of the client: the
\* request's reply is the value the method returns.  Its bare "except"
\* turns whatever was raised into the answer False.
Swallowed(tk, result) == IF tk.pc = "done" THEN [tk EXCEPT !.reply = result] ELSE tk

SwallowedFails(t, result) ==
    /\ \E e \in {"transport", "rejected"} :
          task' = [task EXCEPT ![t] = Swallowed(Raise(@, e), result)]
    /\ OnlyTask

\* The VMs the hypervisor lists for a node.
OnNode(node) ==
    {v \in DOMAIN remote :
        /\ remote[v] # "absent"
        /\ (IF get_vm_by_id(v) # NoVM THEN get_vm_by_id(v).node ELSE Nodes[1]) = node}

check_vmid_exists(t) ==
    /\ task[t].pc = "idle"
    /\ \E vmid \in DOMAIN remote :
        LET tk == [NewTask("check_vmid_exists", 0, {}) EXCEPT !.vmid = vmid]
        IN task' = [task EXCEPT ![t] = Swallowed(Call(tk, "get_nodes"), "False")]
    /\ OnlyTask

check_vmid_exists_get_nodes(t) ==
    /\ Suspended(t, "check_vmid_exists", "get_nodes")
    /\ \/ /\ Answers
          /\ task' = [task EXCEPT ![t] =
                Swallowed(Call([@ EXCEPT !.n = 1], "get_vms"), "False")]
          /\ OnlyTask
       \/ SwallowedFails(t, "False")

check_vmid_exists_get_vms(t) ==
    /\ Suspended(t, "check_vmid_exists", "get_vms")
    /\ \/ /\ Answers
          /\ task' = [task EXCEPT ![t] =
                IF @.vmid \in OnNode(Nodes[@.n]) THEN Finish(@, "True")
                ELSE IF @.n < Len(Nodes)
                     THEN Swallowed(Call([@ EXCEPT !.n = @ + 1], "get_vms"), "False")
                ELSE Finish(@, "False")]
          /\ OnlyTask
       \/ SwallowedFails(t, "False")

\* The reply was delivered: the slot takes the next request.
reply_sent(t) ==
    /\ task[t].pc = "done"
    /\ task' = [task EXCEPT ![t] = IdleTask]
    /\ OnlyTask

\* The commands of VMManagementCog and NodeManagementCog.node_migrate.
VMHandlers(t) ==
    \/ vm_create(t)
    \/ vm_create_get_nodes(t)
    \/ vm_create_get_next_vmid(t)
    \/ vm_create_create_vm(t)
    \/ vm_start(t)
    \/ vm_start_start_vm(t)
    \/ vm_stop(t)
    \/ vm_stop_stop_vm(t)
    \/ vm_reboot(t)
    \/ vm_reboot_reboot_vm(t)
    \/ vm_delete(t)
    \/ vm_delete_delete_vm(t)
    \/ vm_info(t)
    \/ vm_info_get_vm_status(t)
    \/ vm_info_get_vm_config(t)
    \/ vm_clone(t)
    \/ vm_clone_get_next_vmid(t)
    \/ vm_clone_clone_vm(t)
    \/ vm_resize(t)
    \/ vm_resize_resize_disk(t)
    \/ node_migrate(t)
    \/ node_migrate_get_nodes(t)
    \/ node_migrate_migrate_vm(t)
    \/ reply_sent(t)

Next ==
    \/ connect
    \/ disconnect
    \/ \E t \in Tasks : VMHandlers(t)

Spec == Init /\ [][Next]_vars

\* ------------------------------------------------- narrower specifications
\* The same handlers under requests that keep the registry small: the
\* catalog an operator supplies, VMs created by user 2 with the default
\* sizes and no node, backups under generated names.
DefaultRequest == [template |-> "ubuntu-22.04", memory |-> default_vm_memory,
                   cores |-> default_vm_cores, disk |-> default_vm_disk]

DefaultCreate(t) ==
    /\ vm_create(t)
    /\ task'[t].req = DefaultRequest /\ task'[t].node = "" /\ task'[t].user = 2

UnnamedBackup(t) ==
    /\ backup_create(t)
    /\ task'[t].name = ""

InitEnv == Init /\ available_templates = EnvTemplates

CreateSteps(t) ==
    \/ DefaultCreate(t)
    \/ vm_create_get_nodes(t)
    \/ vm_create_get_next_vmid(t)
    \/ vm_create_create_vm(t)

\* Every command that names a VM or reads one, for the ownership claims.
OwnedHandlers(t) ==
    \/ CreateSteps(t)
    \/ vm_start(t)
    \/ vm_start_start_vm(t)
    \/ vm_stop(t)
    \/ vm_stop_stop_vm(t)
    \/ vm_reboot(t)
    \/ vm_reboot_reboot_vm(t)
    \/ vm_delete(t)
    \/ vm_delete_delete_vm(t)
    \/ vm_info(t)
    \/ vm_info_get_vm_status(t)
    \/ vm_info_get_vm_config(t)
    \/ vm_clone(t)
    \/ vm_clone_get_next_vmid(t)
    \/ vm_clone_clone_vm(t)
    \/ vm_resize(t)
    \/ vm_resize_resize_disk(t)
    \/ node_migrate(t)
    \/ node_migrate_get_nodes(t)
    \/ node_migrate_migrate_vm(t)
    \/ template_create(t)
    \/ template_create_get_vm_status(t)
    \/ template_create_stop_vm(t)
    \/ template_create_update_vm_config(t)
    \/ UnnamedBackup(t)
    \/ backup_create_create_backup(t)
    \/ backup_list(t)
    \/ backup_list_get_backups(t)
    \/ backup_restore(t)
    \/ backup_restore_get_backups(t)
    \/ monitor_vm(t)
    \/ monitor_vm_get_vm_status(t)
    \/ monitor_vm_get_vm_stats(t)
    \/ monitor_alerts(t)
    \/ monitor_alerts_get_nodes(t)
    \/ monitor_alerts_get_node_status(t)
    \/ monitor_alerts_get_node_resources(t)
    \/ monitor_alerts_get_vms(t)
    \/ monitor_alerts_get_vm_stats(t)
    \/ user_vms(t)
    \/ user_vms_get_vm_status(t)
    \/ reply_sent(t)

NextOwnership ==
    \/ connect
    \/ \E t \in Tasks : OwnedHandlers(t)

SpecOwnership == InitEnv /\ [][NextOwnership]_vars

\* The same commands with creation requests of user 2 of every size and
\* template, for what a rejected request has done before the rejection.
RequestedCreate(t) ==
    /\ vm_create(t)
    /\ task'[t].node = "" /\ task'[t].user = 2

NextValidation ==
    \/ connect
    \/ \E t \in Tasks : RequestedCreate(t) \/ OwnedHandlers(t)

SpecValidation == InitEnv /\ [][NextValidation]_vars

\* The client's own lookup next to creation, for what its caller is told.
GatewayHandlers(t) ==
    \/ CreateSteps(t)
    \/ check_vmid_exists(t)
    \/ check_vmid_exists_get_nodes(t)
    \/ check_vmid_exists_get_vms(t)
    \/ reply_sent(t)

NextGateway ==
    \/ connect
    \/ disconnect
    \/ \E t \in Tasks : GatewayHandlers(t)

SpecGateway == InitEnv /\ [][NextGateway]_vars

\* Templates made from VMs of user 2, and their deletion.
TemplateHandlers(t) ==
    \/ CreateSteps(t)
    \/ vm_start(t)
    \/ vm_start_start_vm(t)
    \/ template_create(t)
    \/ template_create_get_vm_status(t)
    \/ template_create_stop_vm(t)
    \/ template_create_update_vm_config(t)
    \/ template_delete(t)
    \/ reply_sent(t)

NextTemplates ==
    \/ connect
    \/ \E t \in Tasks : TemplateHandlers(t)

SpecTemplates == InitEnv /\ [][NextTemplates]_vars

\* Cleanup over a deployments table that already holds rows.
InitCleanup ==
    /\ session = "none"
    /\ authenticated = FALSE
    /\ available_templates = EnvTemplates
    /\ remote = [v \in VmIds |-> "absent"]
    /\ remote_backups = {}
    /\ vms = {}
    /\ backups = {}
    /\ schedules = [v \in VmIds |-> 0]
    /\ deployments \in {ds \in SUBSET DeploymentInputs : Cardinality(ds) <= MaxDeployments}
    /\ templates = {}
    /\ permission = NoPermission
    /\ task = [t \in TaskSlots |-> IdleTask]

NextCleanup ==
    \E t \in Tasks : user_cleanup(t) \/ reply_sent(t)

SpecCleanup == InitCleanup /\ [][NextCleanup]_vars

\* The monitoring flows over VMs of user 2 that are started and stopped.
MonitoringHandlers(t) ==
    \/ CreateSteps(t)
    \/ vm_start(t)
    \/ vm_start_start_vm(t)
    \/ vm_stop(t)
    \/ vm_stop_stop_vm(t)
    \/ monitor_vm(t)
    \/ monitor_vm_get_vm_status(t)
    \/ monitor_vm_get_vm_stats(t)
    \/ monitor_alerts(t)
    \/ monitor_alerts_get_nodes(t)
    \/ monitor_alerts_get_node_status(t)
    \/ monitor_alerts_get_node_resources(t)
    \/ monitor_alerts_get_vms(t)
    \/ monitor_alerts_get_vm_stats(t)
    \/ reply_sent(t)

NextMonitoring ==
    \/ connect
    \/ disconnect
    \/ \E t \in Tasks : MonitoringHandlers(t)

SpecMonitoring == InitEnv /\ [][NextMonitoring]_vars

\* has_permission alone, under every configuration of the input sets.
SpecPermission == Init /\ [][evaluate_has_permission]_vars

\* The backup commands over VMs created by user 2.
BackupHandlers(t) ==
    \/ CreateSteps(t)
    \/ backup_create(t)
    \/ backup_create_create_backup(t)
    \/ backup_list(t)
    \/ backup_list_get_backups(t)
    \/ backup_restore(t)
    \/ backup_restore_get_backups(t)
    \/ backup_schedule(t)
    \/ backup_unschedule(t)
    \/ backup_cleanup(t)
    \/ backup_cleanup_get_backups(t)
    \/ reply_sent(t)

NextBackup ==
    \/ connect
    \/ disconnect
    \/ \E t \in Tasks : BackupHandlers(t)

SpecBackup == InitEnv /\ [][NextBackup]_vars

\* Creation and cloning on a hypervisor with one identifier more than the
\* per-user quota.
QuotaVmIds == FirstVmid .. (FirstVmid + max_vms_per_user)

InitQuota ==
    /\ session = "none"
    /\ authenticated = FALSE
    /\ available_templates = EnvTemplates
    /\ remote = [v \in QuotaVmIds |-> "absent"]
    /\ remote_backups = {}
    /\ vms = {}
    /\ backups = {}
    /\ schedules = [v \in VmIds |-> 0]
    /\ deployments = {}
    /\ templates = {}
    /\ permission = NoPermission
    /\ task = [t \in TaskSlots |-> IdleTask]

QuotaHandlers(t) ==
    \/ CreateSteps(t)
    \/ vm_clone(t)
    \/ vm_clone_get_next_vmid(t)
    \/ vm_clone_clone_vm(t)
    \/ reply_sent(t)

NextQuota ==
    \/ connect
    \/ \E t \in Tasks : QuotaHandlers(t)

SpecQuota == InitQuota /\ [][NextQuota]_vars

\* Two requests handled at the same time: creation, cloning, start and stop.
RaceHandlers(t) ==
    \/ CreateSteps(t)
    \/ vm_clone(t)
    \/ vm_clone_get_next_vmid(t)
    \/ vm_clone_clone_vm(t)
    \/ vm_start(t)
    \/ vm_start_start_vm(t)
    \/ vm_stop(t)
    \/ vm_stop_stop_vm(t)
    \/ reply_sent(t)

NextRace ==
    \/ connect
    \/ \E t \in TaskSlots : RaceHandlers(t)

SpecRace == InitEnv /\ [][NextRace]_vars

\* ------------------------------------------------------------------ claims
\* The commands that change a VM, a backup or a template, and the gateway
\* operations that change the hypervisor.
MutatingCommands ==
    {"vm_create", "vm_start", "vm_stop", "vm_reboot", "vm_delete", "vm_clone",
     "vm_resize", "node_migrate", "backup_create", "backup_restore", "backup_delete",
     "backup_cleanup", "template_create"}
MutatingOps ==
    {"create_vm", "clone_vm", "start_vm", "stop_vm", "reboot_vm", "delete_vm",
     "resize_disk", "migrate_vm", "create_backup", "update_vm_config"}
\* The gateway operations that address one VM.
VmSpecificOps ==
    (MutatingOps \ {"create_vm"}) \cup
    {"get_vm_status", "get_vm_config", "get_vm_stats", "get_backups"}
GatewayOps == ProxmoxClientMethods \ {"connect", "disconnect"}
\* What a gateway operation raises.
GatewayErrors == {"transport", "rejected", "not_connected", "session_closed"}

\* The monitoring commands of the model, and the gateway operations whose
\* request is a GET.
MonitoringCommands == MonitoringFlows \cup {"monitor_vm"}
ReadOperations ==
    {"get_nodes", "get_node_status", "get_node_resources", "get_vms",
     "get_vm_config", "get_vm_status", "get_snapshots", "get_backups",
     "get_storage", "get_storage_content", "get_networks", "get_templates",
     "get_vm_stats", "get_node_stats", "get_next_vmid"}

\* What database.create_vm raises when the registry write fails.
RegistryErrors == {"IntegrityError", "OperationalError"}

\* The replies that reject a request for what it asks or who asks it.
ValidationReplies ==
    {"no_permission", "invalid_template", "memory_below_minimum",
     "cores_below_minimum", "disk_below_minimum", "not_found_or_not_owner",
     "size_not_larger"}

\* C1 as stated: whenever a VM-specific gateway call is in flight for a
\* request, the registry holds a record of the targeted VM and the record's
\* owner is the requesting user.
C1_EveryCallByTheOwner ==
    \A t \in TaskSlots :
        task[t].pc \in VmSpecificOps =>
            OwnerCheck(get_vm_by_id(task[t].vmid), task[t].user)

\* C1 amended: every VM-specific gateway call in flight belongs either to a
\* command that fetched the record of the VM it targets and found the
\* requesting user to be its owner (being an admin or holding a role did not
\* count), or to a monitoring flow (monitor_alerts, monitor_health), which
\* reads the statistics of every running VM for any user with command
\* permission.
C1_OwnerCheckedOrMonitoring ==
    \A t \in TaskSlots :
        task[t].pc \in VmSpecificOps =>
            IF task[t].cmd \in MonitoringFlows
            THEN task[t].pc = "get_vm_stats" /\ has_permission(task[t].user, task[t].roles)
            ELSE /\ task[t].vm # NoVM
                 /\ task[t].vm.vm_id = task[t].vmid
                 /\ task[t].vm.owner_id = task[t].user

\* A delete is in flight for the owner of the VM while an admin exists who
\* does not own it.
C1_Witness ==
    \E t \in TaskSlots :
        /\ task[t].pc = "delete_vm"
        /\ task[t].vm.owner_id = task[t].user
        /\ ~is_admin(task[t].user)

\* C2: no mutating gateway call of a mutating command is in flight for a
\* user for whom has_permission is false.
C2_PermissionBeforeMutation ==
    \A t \in TaskSlots :
        (task[t].cmd \in MutatingCommands /\ task[t].pc \in MutatingOps) =>
            has_permission(task[t].user, task[t].roles)

\* The dimensions in which a request is below its template's minimums.
Insufficient(req) ==
    LET info == available_templates[req.template]
    IN {d \in {"memory", "cores", "disk"} :
            \/ d = "memory" /\ req.memory < info.min_memory
            \/ d = "cores" /\ req.cores < info.min_cores
            \/ d = "disk" /\ req.disk < info.min_disk}

\* C3: a vm_create by a permitted user for a template of the catalog, with
\* memory, cores or disk below the template's minimum, ends in the step that
\* receives it, with a reply naming a dimension that is insufficient, without
\* any gateway call (so without get_next_vmid and create_vm) and without a
\* change to the registry's VM table or to the hypervisor.
C3_BelowMinimumRejected ==
    [][\A t \in TaskSlots :
          ( /\ task[t].pc = "idle"
            /\ task'[t].cmd = "vm_create"
            /\ has_permission(task'[t].user, task'[t].roles)
            /\ task'[t].req.template \in DOMAIN available_templates
            /\ Insufficient(task'[t].req) # {} )
          => /\ task'[t].pc = "done"
             /\ task'[t].reply \in {d \o "_below_minimum" : d \in Insufficient(task'[t].req)}
             /\ task'[t].calls = {}
             /\ vms' = vms
             /\ remote' = remote]_vars

\* A permitted request with too few cores was answered so.
C3_Witness ==
    \E t \in TaskSlots :
        /\ task[t].cmd = "vm_create" /\ task[t].pc = "done"
        /\ task[t].req.template \in DOMAIN available_templates
        /\ task[t].req.cores < available_templates[task[t].req.template].min_cores
        /\ task[t].reply = "cores_below_minimum"
        /\ task[t].calls = {}

\* C4: every user owns at most max_vms_per_user VM records.
C4_QuotaRespected ==
    \A user \in Users : Cardinality(get_user_vms(user)) <= max_vms_per_user

\* C5: no two requests have a create or clone in flight with the same
\* identifier, and no two VM records hold the same vm_id.
C5_DistinctIdentifiers ==
    /\ \A t1, t2 \in TaskSlots :
          ( /\ t1 # t2
            /\ task[t1].pc \in {"create_vm", "clone_vm"}
            /\ task[t2].pc \in {"create_vm", "clone_vm"} )
          => task[t1].n # task[t2].n
    /\ \A r, q \in vms : r.vm_id = q.vm_id => r = q

\* C6: no two requests have a mutating gateway call in flight for the same
\* VM identifier.
C6_OneMutationPerVM ==
    \A t1, t2 \in TaskSlots :
        ( /\ t1 # t2
          /\ task[t1].pc \in MutatingOps \ {"create_vm"}
          /\ task[t2].pc \in MutatingOps \ {"create_vm"} )
        => task[t1].vmid # task[t2].vmid

\* C8: while a mutating command is suspended in a gateway call, the registry
\* holds a Deployment record of the requesting user.
C8_DeploymentBeforeGateway ==
    \A t \in TaskSlots :
        (task[t].cmd \in MutatingCommands /\ task[t].pc \in GatewayOps) =>
            \E d \in deployments : d.user_id = task[t].user

\* C9: a permitted vm_create of 2048 MB, 2 cores, 32 GB from the built-in
\* "ubuntu-22.04", none of whose gateway calls failed, ends with a stored
\* record of exactly those values, status stopped, and an identifier no other
\* record holds.
C9_CreateRoundTrip ==
    \A t \in TaskSlots :
        ( /\ task[t].cmd = "vm_create" /\ task[t].pc = "done"
          /\ available_templates = DefaultTemplates
          /\ task[t].req = DefaultRequest
          /\ has_permission(task[t].user, task[t].roles)
          /\ task[t].error \notin GatewayErrors )
        => /\ task[t].reply = "created"
           /\ \E r \in vms :
                 /\ r.vm_id = task[t].n /\ r.vm_id # 0
                 /\ r.template = "ubuntu-22.04" /\ r.memory = 2048 /\ r.cores = 2
                 /\ r.disk_size = 32
                 /\ r.status = "stopped"
                 /\ \A q \in vms \ {r} : q.vm_id # r.vm_id

\* C10: after backup_cleanup found `todo` archives under a retention of n,
\* the VM has min(n, |todo|) archives left and every archive left is at least
\* as new as every archive removed.
C10_CleanupLeavesRetention ==
    \A t \in TaskSlots :
        ( /\ task[t].cmd = "backup_cleanup" /\ task[t].pc = "done"
          /\ task[t].reply \in {"cleanup_completed", "nothing_to_clean"} )
        => LET found == task[t].todo
               left == get_backups(task[t].vmid)
               N == task[t].n
           IN /\ Cardinality(left) = IF N < Cardinality(found) THEN N ELSE Cardinality(found)
              /\ \A k \in left, r \in found \ left : k.ctime >= r.ctime

C12_OrphanReportedDistinctly ==
    \A t \in TaskSlots :
        ( /\ task[t].cmd \in {"vm_create", "vm_clone"}
          /\ task[t].pc = "done"
          /\ task[t].error \in RegistryErrors )
        => /\ task[t].reply # "failed"
           /\ \E d \in deployments : d.user_id = task[t].user

\* C13: a step in which a request invokes a gateway operation while the
\* client has no open session ends the request with the not-connected
\* error and without an HTTP request having been sent for it.
C13_NotConnectedError ==
    [][\A t \in TaskSlots :
          (session # "open" /\ task'[t].calls \ task[t].calls # {})
          => /\ task'[t].pc = "done"
             /\ task'[t].attempts = 0
             /\ task'[t].error = "not_connected"]_vars

\* C14: a request that ended with a transport-level failure of a gateway
\* operation ended only after that operation had been tried again: more
\* than one HTTP attempt was made for it.
C14_TransportFailureRetried ==
    \A t \in TaskSlots :
        (task[t].pc = "done" /\ task[t].error = "transport")
        => task[t].attempts > 1

\* C15: a request that ended because the hypervisor rejected a gateway
\* operation made exactly one HTTP attempt for it, and the error it ended
\* with carries the message of the hypervisor's error body.
C15_RejectionCarriesUpstreamMessage ==
    \A t \in TaskSlots :
        (task[t].pc = "done" /\ task[t].error = "rejected")
        => /\ task[t].attempts = 1
           /\ task[t].detail = task[t].upstream

\* C16: when the hypervisor rejects a create or clone whose identifier,
\* peeked by get_next_vmid, has been taken in the meantime, the request
\* does not end there: it goes back to peek a fresh identifier.
C16_CollisionRetriedWithFreshId ==
    [][\A t \in TaskSlots :
          ( /\ task[t].cmd \in {"vm_create", "vm_clone"}
            /\ task[t].pc \in {"create_vm", "clone_vm"}
            /\ "get_next_vmid" \in task[t].calls
            /\ remote[task[t].n] # "absent"
            /\ task'[t].error = "rejected" )
          => task'[t].pc = "get_next_vmid"]_vars

C18_FailureReachesCaller ==
    \A t \in TaskSlots :
        ( /\ task[t].cmd = "check_vmid_exists" /\ task[t].pc = "done"
          /\ task[t].error \in {"transport", "rejected"} )
        => task[t].reply \notin {"True", "False"}

\* C19: every VM row of the registry has at least the memory, the cores
\* and the disk size its template requires, however it came to be: created,
\* cloned or resized.
C19_RecordsMeetMinimum ==
    \A r \in vms :
        /\ r.template \in DOMAIN available_templates
        /\ r.memory >= available_templates[r.template].min_memory
        /\ r.cores >= available_templates[r.template].min_cores
        /\ r.disk_size >= available_templates[r.template].min_disk

\* A clone of a VM whose disk was resized after its creation.
C19_Witness ==
    \E t \in TaskSlots :
        /\ task[t].cmd = "vm_clone" /\ task[t].reply = "cloned"
        /\ \E r \in vms : r.vm_id = task[t].n /\ r.disk_size > default_vm_disk

\* C20: a template_delete by a permitted member for a template that
\* template_create stored removes the template exactly when the member is
\* the one template_create recorded as its creator.
C20_DeletedExactlyByCreator ==
    [][\A t \in TaskSlots :
          ( /\ task[t].pc = "idle"
            /\ task'[t].cmd = "template_delete"
            /\ has_permission(task'[t].user, task'[t].roles)
            /\ \E r \in templates : r.name = task'[t].name )
          => ( (\E r \in templates : /\ r.name = task'[t].name
                                     /\ r.metadata.created_by = task'[t].user)
               <=> (\A r \in templates' : r.name # task'[t].name) )]_vars

\* C21: a user_cleanup removes only deployments that belong to the
\* requesting user, have ended (completed or failed) and are older than the
\* cutoff; it adds none, and every other deployment stays as it was.
C21_CleanupOnlyOwnTerminalOld ==
    [][\A t \in TaskSlots :
          (task[t].pc = "idle" /\ task'[t].cmd = "user_cleanup")
          => /\ deployments' \subseteq deployments
             /\ \A d \in deployments \ deployments' :
                   /\ d.user_id = task'[t].user
                   /\ d.status \in {"completed", "failed"}
                   /\ d.age > cleanup_days]_vars

\* A cleanup that removed rows and left another user's old ended deployment.
C21_Witness ==
    \E t \in TaskSlots :
        /\ task[t].cmd = "user_cleanup"
        /\ task[t].reply = "user_cleanup_completed"
        /\ task[t].todo # {}
        /\ \E d \in deployments : /\ d.user_id # task[t].user
                                   /\ d.status \in {"completed", "failed"}
                                   /\ d.age > cleanup_days

\* C22: every backup row of the registry names a VM that has a row in the
\* registry: vm_delete leaves no backup row of a removed VM behind.
C22_DependentsReferenceExistingVM ==
    \A b \in backups : \E r \in vms : r.vm_id = b.vm_id

\* C23: no step changes the owner of a VM row that exists before and after
\* it, and the row a clone adds belongs to the member who asked for the clone.
C23_OwnerNeverChanges ==
    [][/\ \A r \in vms, q \in vms' : r.vm_id = q.vm_id => q.owner_id = r.owner_id
       /\ \A t \in TaskSlots :
             (task[t].cmd = "vm_clone" /\ task'[t].reply = "cloned")
             => \A q \in vms' \ vms : q.owner_id = task[t].user]_vars

\* A member who is no admin has migrated their VM: the row moved and is
\* still theirs.
C23_Witness ==
    \E t \in TaskSlots :
        /\ task[t].cmd = "node_migrate" /\ task[t].reply = "migrating"
        /\ \E r \in vms : /\ r.vm_id = task[t].vmid
                           /\ r.node = task[t].node
                           /\ r.owner_id = task[t].user
                           /\ r.owner_id \notin admin_user_ids

\* C24: every step of a monitoring request leaves the hypervisor's VMs and
\* backups and every table of the registry as they were, and the gateway
\* operations the request has invoked are all reads.
C24_MonitoringOnlyReads ==
    [][\A t \in TaskSlots :
          (task'[t].cmd \in MonitoringCommands /\ task'[t] # task[t])
          => /\ task'[t].calls \subseteq ReadOperations
             /\ UNCHANGED <<remote, remote_backups, vms, backups, schedules,
                            deployments, templates>>]_vars

\* monitor_vm has read the status and the statistics of a running VM.
C24_Witness ==
    \E t \in TaskSlots :
        /\ task[t].cmd = "monitor_vm" /\ task[t].reply = "vm_monitored"
        /\ task[t].calls = {"get_vm_status", "get_vm_stats"}
        /\ remote[task[t].vmid] = "running"

\* C25: has_permission answers True exactly when the member's id is among
\* the admin ids or the member holds a role whose name is among the allowed
\* role names, whatever the two settings and the member's roles are.
C25_PermissionIffAdminOrRole ==
    permission.result # "" =>
        ( permission.result = "True"
          <=> \/ permission.user \in permission.admin_user_ids
              \/ \E i \in DOMAIN permission.allowed_roles :
                    permission.allowed_roles[i] \in permission.roles )

\* Permission through the second allowed role, with no admin configured.
C25_Witness ==
    /\ permission.result = "True"
    /\ permission.admin_user_ids = {}
    /\ Len(permission.allowed_roles) = 2
    /\ permission.allowed_roles[1] \notin permission.roles
    /\ permission.allowed_roles[2] \in permission.roles

\* C26: disconnect() is safe in every client state.  A step that takes the
\* session out of the open state or changes a session that is not open is a
\* disconnect(); it only ever closes an open session, so on a client never
\* connected or already disconnected it changes nothing, and it puts no
\* error on any request.
C26_DisconnectIdempotent ==
    [][ (session' # session /\ session' # "open")
            => /\ session = "open"
               /\ session' = "closed"
               /\ task' = task
               /\ authenticated' = authenticated ]_vars

\* A client that was connected, authenticated, and then disconnected.
C26_Witness == session = "closed" /\ authenticated

\* C27: when a start_vm or stop_vm of vm_start, vm_stop or template_create,
\* or a get_vm_status of vm_info, monitor_vm or template_create, returns
\* without error, the status of the VM's registry row is the run state of the
\* VM on the hypervisor.
C27_StatusFedBack ==
    [][\A t \in TaskSlots :
          ( /\ task[t].cmd \in {"vm_start", "vm_stop", "template_create",
                                 "vm_info", "monitor_vm"}
            /\ task[t].pc \in {"start_vm", "stop_vm", "get_vm_status"}
            /\ task'[t].pc # task[t].pc
            /\ task'[t].error = "" )
          => \A r \in vms' : r.vm_id = task[t].vmid
                                => r.status = remote'[task[t].vmid]]_vars

RegistryWritingCommands ==
    {"vm_create", "vm_clone", "vm_start", "vm_stop", "vm_delete", "vm_resize",
     "node_migrate"}

\* C29: in vm_create, vm_clone, vm_start, vm_stop, vm_delete, vm_resize and
\* node_migrate a step in which a gateway call fails leaves the registry as
\* it was, and every step that changes the VM table is the return, without
\* error and from a hypervisor that answered, of the remote operation the
\* command performs.
C29_WriteFollowsRemoteSuccess ==
    [][/\ \A t \in TaskSlots :
             ( /\ task[t].cmd \in RegistryWritingCommands \/ task'[t].cmd \in RegistryWritingCommands
               /\ task[t].error = ""
               /\ task'[t].error \in GatewayErrors )
             => UNCHANGED <<vms, backups, schedules, deployments, templates>>
       /\ vms' # vms
             => \E t \in TaskSlots :
                   /\ task[t].cmd \in RegistryWritingCommands
                   /\ task[t].pc \in {"create_vm", "clone_vm", "start_vm", "stop_vm",
                                       "delete_vm", "resize_disk", "migrate_vm"}
                   /\ task'[t].pc = "done"
                   /\ task'[t].error = ""
                   /\ Answers]_vars

\* A vm_stop whose stop_vm failed in transport while the row says running.
C29_Witness ==
    \E t \in TaskSlots :
        /\ task[t].cmd = "vm_stop"
        /\ task[t].error = "transport"
        /\ \E r \in vms : r.vm_id = task[t].vmid /\ r.status = "running"

\* C30: a request that enters a gateway operation while the client holds no
\* credentials of a successful authentication (never connected, or connected
\* with the authentication rejected) fails there as not connected: nothing
\* is sent and no operation is left in flight.
C30_NoRequestWithoutCredentials ==
    [][\A t \in TaskSlots :
          ( /\ task'[t].calls \ task[t].calls # {}
            /\ ~authenticated
            /\ session # "closed" )
          => /\ task'[t].error = "not_connected"
             /\ task'[t].attempts = 0
             /\ task'[t].pc \notin GatewayOps]_vars

====
